---- MODULE Spec2Model ----
(***************************************************************************)
(* The two marketplace scripts of ecosystem/marketplace/scripts:           *)
(*   generate-catalog-from-releases.py  builds the catalog from the        *)
(*                                      releases `gh release list` reports *)
(*   convert-plugin-manifest.py         maps one plugin.yaml to an entry   *)
(* One behaviour is one run of one script.  A Python str is the sequence   *)
(* of its characters, so that split, lstrip, replace, startswith, endswith *)
(* and `in` are computed character by character as CPython computes them.  *)
(***************************************************************************)
EXTENDS Integers, Sequences, FiniteSets, TLC

VARIABLES script, pc, gh, releases, i, release, plugin, plugins, catalog,
          exc, argv, yamlLoad, entry, stdout, stderr, exitcode

vars == <<script, pc, gh, releases, i, release, plugin, plugins, catalog,
          exc, argv, yamlLoad, entry, stdout, stderr, exitcode>>

\* Longest release list the collaborator returns in the model.
MaxReleases == 2

(***************************************************************************)
(* Python values.  A value that may be None (or of several types) carries  *)
(* its type: t is the type's name and v the payload (the characters of a   *)
(* str; the text of a nested dict or list, which the scripts only copy).   *)
(* Fields that are always str (tagName, an asset's name and url) are bare  *)
(* character sequences.  A dict read with .get is a function on its keys.  *)
(***************************************************************************)
None == [t |-> "NoneType", v |-> <<>>]
Str(s) == [t |-> "str", v |-> s]
PyDict(s) == [t |-> "dict", v |-> s]
PyList(s) == [t |-> "list", v |-> s]
EmptyDict == [k \in {} |-> None]

\* bool(x) of a tagged value: None, '', {} and [] are falsy.
Truthy(x) == x.t # "NoneType" /\ x.v # <<>>

\* An exception travelling up the call stack; str(e) is its message.
Raise(msg) == [raised |-> msg]
Raised(x) == DOMAIN x = {"raised"}

\* dict.get(k, default): the stored value (None included) when the key is
\* present, the default only when the key is missing.
Get(d, k, default) == IF k \in DOMAIN d THEN d[k] ELSE default

---------------------------------------------------------------------------
(* str methods *)

StartsWith(s, p) == Len(s) >= Len(p) /\ SubSeq(s, 1, Len(p)) = p

EndsWith(s, p) ==
    Len(s) >= Len(p) /\ SubSeq(s, Len(s) - Len(p) + 1, Len(s)) = p

\* sub in s
Contains(s, sub) ==
    \E k \in 1..(Len(s) - Len(sub) + 1) : SubSeq(s, k, k + Len(sub) - 1) = sub

\* s.split(sep) for a one-character sep: the list of the maximal pieces
\* between separators, empty pieces kept.
RECURSIVE Split(_, _)
Split(s, sep) ==
    IF \A k \in 1..Len(s) : s[k] # sep
    THEN <<s>>
    ELSE LET k == CHOOSE n \in 1..Len(s) :
                      s[n] = sep /\ \A j \in 1..(n - 1) : s[j] # sep
         IN  <<SubSeq(s, 1, k - 1)>> \o Split(SubSeq(s, k + 1, Len(s)), sep)

\* s.lstrip(chars): every leading character that is in chars is removed.
RECURSIVE LStrip(_, _)
LStrip(s, chars) ==
    IF s # <<>> /\ s[1] \in chars THEN LStrip(Tail(s), chars) ELSE s

\* s.replace(old, new, 1): only the leftmost occurrence is replaced.
RECURSIVE ReplaceFirst(_, _, _)
ReplaceFirst(s, old, new) ==
    IF Len(s) < Len(old) THEN s
    ELSE IF StartsWith(s, old)
         THEN new \o SubSeq(s, Len(old) + 1, Len(s))
         ELSE <<s[1]>> \o ReplaceFirst(Tail(s), old, new)

\* s.replace(old, new) for a non-empty old: every non-overlapping
\* occurrence, found left to right, is replaced.
RECURSIVE Replace(_, _, _)
Replace(s, old, new) ==
    IF Len(s) < Len(old) THEN s
    ELSE IF StartsWith(s, old)
         THEN new \o Replace(SubSeq(s, Len(old) + 1, Len(s)), old, new)
         ELSE <<s[1]>> \o Replace(Tail(s), old, new)

Lower == <<"a", "b", "c", "d", "e", "f", "g", "h", "i", "j", "k", "l", "m", "n", "o", "p", "q", "r", "s", "t", "u", "v", "w", "x", "y", "z">>
Upper == <<"A", "B", "C", "D", "E", "F", "G", "H", "I", "J", "K", "L", "M", "N", "O", "P", "Q", "R", "S", "T", "U", "V", "W", "X", "Y", "Z">>
IsLower(c) == \E k \in 1..Len(Lower) : Lower[k] = c
IsUpper(c) == \E k \in 1..Len(Upper) : Upper[k] = c
IsCased(c) == IsLower(c) \/ IsUpper(c)
ToUpper(c) ==
    IF IsLower(c) THEN Upper[CHOOSE k \in 1..Len(Lower) : Lower[k] = c] ELSE c
ToLower(c) ==
    IF IsUpper(c) THEN Lower[CHOOSE k \in 1..Len(Upper) : Upper[k] = c] ELSE c

\* s.title(): a cased character is uppercased when the character before it
\* is not cased, lowercased otherwise.
Title(s) ==
    [k \in 1..Len(s) |->
        IF k > 1 /\ IsCased(s[k - 1]) THEN ToLower(s[k]) ELSE ToUpper(s[k])]

---------------------------------------------------------------------------
(* generate-catalog-from-releases.py *)

PluginPrefix == <<"p", "l", "u", "g", "i", "n", "-">>
PluginSuffix == <<".", "p", "l", "u", "g", "i", "n">>
ChecksumSuffix == <<".", "p", "l", "u", "g", "i", "n", ".", "s", "h", "a", "2", "5", "6">>

\* The platform keys, in the order the scan tries them.
Platforms == << <<"d", "a", "r", "w", "i", "n", "-", "a", "m", "d", "6", "4">>, <<"d", "a", "r", "w", "i", "n", "-", "a", "r", "m", "6", "4">>, <<"l", "i", "n", "u", "x", "-", "a", "m", "d", "6", "4">>, <<"l", "i", "n", "u", "x", "-", "a", "r", "m", "6", "4">> >>
PlatformKeys == {Platforms[k] : k \in 1..Len(Platforms)}

\* A filter that keeps every release, whatever its tag.
KeepAllReleases(all) == all

\* get_plugin_releases, the loop over the parsed listing: the releases whose
\* tag starts with 'plugin-', in the listing's order.
FilterPluginReleases(all) ==
    SelectSeq(all, LAMBDA r : StartsWith(r.tagName, PluginPrefix))

\* downloads[platform] = {...}: the key is added or its value overwritten.
SetItem(d, k, val) ==
    [x \in DOMAIN d \cup {k} |-> IF x = k THEN val ELSE d[x]]

DownloadEntry(asset) ==
    [url |-> asset.url,
     checksumUrl |-> Replace(asset.url, PluginSuffix, ChecksumSuffix)]

\* The inner loop over the platform keys for one asset, from key k on: every
\* key that occurs in the name is written; the loop has no break.
RECURSIVE ScanPlatforms(_, _, _)
ScanPlatforms(asset, k, downloads) ==
    IF k > Len(Platforms) THEN downloads
    ELSE ScanPlatforms(asset, k + 1,
            IF Contains(asset.name, Platforms[k])
            THEN SetItem(downloads, Platforms[k], DownloadEntry(asset))
            ELSE downloads)

\* The loop over the assets, from asset k on.
RECURSIVE ScanAssets(_, _, _)
ScanAssets(assets, k, downloads) ==
    IF k > Len(assets) THEN downloads
    ELSE ScanAssets(assets, k + 1,
            IF EndsWith(assets[k].name, PluginSuffix)
            THEN ScanPlatforms(assets[k], 1, downloads)
            ELSE downloads)

\* A check that never finds the mapping empty.
NeverEmpty(downloads) == FALSE

\* not downloads
NotDownloads(downloads) == DOMAIN downloads = {}

\* x.split('\n')[0]: the first line of a str; None has no split.
FirstLine(x) ==
    IF x.t = "str" THEN Str(Split(x.v, "\n")[1])
    ELSE Raise(<<"'", "N", "o", "n", "e", "T", "y", "p", "e", "'", " ", "o", "b", "j", "e", "c", "t", " ", "h", "a", "s", " ", "n", "o", " ", "a", "t", "t", "r", "i", "b", "u", "t", "e", " ", "'", "s", "p", "l", "i", "t", "'">>)

\* The description computed without the guard on a missing or null body.
DescriptionUnguarded(rel) == FirstLine(Get(rel, "body", Str(<<>>)))

\* release.get('body', '').split('\n')[0] if release.get('body') else ''
Description(rel) ==
    IF Truthy(Get(rel, "body", None))
    THEN FirstLine(Get(rel, "body", Str(<<>>)))
    ELSE Str(<<>>)

\* parse_plugin_release: None, the catalog entry, or the exception raised.
parse_plugin_release(rel) ==
    LET tag == rel.tagName
        parts == Split(tag, "-")
    IN  IF Len(parts) < 3 THEN None
        ELSE
        LET plugin_id == parts[2]
            version == LStrip(parts[3], {"v"})
            assets == Get(rel, "assets", <<>>)
            downloads == ScanAssets(assets, 1, EmptyDict)
        IN  IF NotDownloads(downloads) THEN None
            ELSE
            LET description == Description(rel)
            IN  IF Raised(description) THEN description
                ELSE
                [id |-> plugin_id,
                 name |-> Title(Replace(plugin_id, <<"-">>, <<" ">>)),
                 version |-> version,
                 official |-> TRUE,
                 downloads |-> downloads,
                 metadata |->
                    [description |-> description,
                     publishedAt |-> Get(rel, "publishedAt", Str(<<>>))]]

CatalogVersion == <<"1", ".", "0">>
BaseUrl == <<"h", "t", "t", "p", "s", ":", "/", "/", "g", "i", "t", "h", "u", "b", ".", "c", "o", "m", "/", "b", "l", "a", "c", "k", "h", "o", "l", "e", "-", "p", "r", "o", "/", "b", "l", "a", "c", "k", "h", "o", "l", "e", "/", "r", "e", "l", "e", "a", "s", "e", "s", "/", "d", "o", "w", "n", "l", "o", "a", "d">>

\* datetime.utcnow().isoformat(): what the clock may read during a run.
Clock == { <<"2", "0", "2", "4", "-", "0", "5", "-", "0", "1", "T", "1", "2", ":", "0", "0", ":", "0", "0">>, <<"2", "0", "2", "4", "-", "0", "5", "-", "0", "2", "T", "0", "8", ":", "3", "0", ":", "0", "0", ".", "5">> }

\* json.dumps of a tagged value: None is written null, a str a string.
JsonValue(x) ==
    [t |-> CASE x.t = "NoneType" -> "null"
             [] x.t = "str" -> "string"
             [] x.t = "dict" -> "object"
             [] x.t = "list" -> "array",
     v |-> x.v]

JsonPlugin(p) ==
    [id |-> p.id, name |-> p.name, version |-> p.version,
     official |-> p.official, downloads |-> p.downloads,
     metadata |-> [description |-> JsonValue(p.metadata.description),
                   publishedAt |-> JsonValue(p.metadata.publishedAt)]]

\* json.dumps(catalog, indent=2): the JSON document printed.
JsonCatalog(c) ==
    [json |-> [version |-> c.version, updated |-> c.updated,
               baseUrl |-> c.baseUrl,
               plugins |-> [k \in 1..Len(c.plugins) |-> JsonPlugin(c.plugins[k])]]]

\* One line of text written by print.
Line(s) == [text |-> s]

---------------------------------------------------------------------------
(* The inputs of a run of the catalog generator *)

\* The tag a release of plugin `id` at `version` carries.
PluginTag(id, version) == PluginPrefix \o id \o <<"-", "v">> \o version

Ids == { <<"n", "o", "d", "e">>, <<"m", "y", "-", "d", "b">> }
Versions == { <<"1", ".", "2", ".", "0">>, <<"v", "2">>, <<"1", ".", "0", "-", "r", "c">> }
BaseTag == PluginTag(<<"n", "o", "d", "e">>, <<"1", ".", "2", ".", "0">>)
Tags ==
    {PluginTag(<<"n", "o", "d", "e">>, ver) : ver \in Versions}
        \cup {PluginTag(id, <<"1", ".", "2", ".", "0">>) : id \in Ids}
        \cup { <<"p", "l", "u", "g", "i", "n", "-", "f", "o", "o">>, <<"c", "o", "r", "e", "-", "v", "1", ".", "0", "-", "b", "e", "t", "a">>, <<"v", "0", ".", "9">> }

Asset(name, url) == [name |-> name, url |-> url]
LinuxAmd == Asset(<<"n", "o", "d", "e", "-", "l", "i", "n", "u", "x", "-", "a", "m", "d", "6", "4", ".", "p", "l", "u", "g", "i", "n">>, <<"h", "t", "t", "p", "s", ":", "/", "/", "x", "/", "n", "o", "d", "e", "-", "l", "i", "n", "u", "x", "-", "a", "m", "d", "6", "4", ".", "p", "l", "u", "g", "i", "n">>)
LinuxAmdOld == Asset(<<"o", "l", "d", "-", "l", "i", "n", "u", "x", "-", "a", "m", "d", "6", "4", ".", "p", "l", "u", "g", "i", "n">>, <<"h", "t", "t", "p", "s", ":", "/", "/", "x", "/", "o", "l", "d", "-", "l", "i", "n", "u", "x", "-", "a", "m", "d", "6", "4", ".", "p", "l", "u", "g", "i", "n">>)
DarwinArm == Asset(<<"n", "o", "d", "e", "-", "d", "a", "r", "w", "i", "n", "-", "a", "r", "m", "6", "4", ".", "p", "l", "u", "g", "i", "n">>, <<"h", "t", "t", "p", "s", ":", "/", "/", "x", ".", "p", "l", "u", "g", "i", "n", "s", "/", "n", "o", "d", "e", "-", "d", "a", "r", "w", "i", "n", "-", "a", "r", "m", "6", "4", ".", "p", "l", "u", "g", "i", "n">>)
TwoKeys == Asset(<<"n", "o", "d", "e", "-", "d", "a", "r", "w", "i", "n", "-", "a", "m", "d", "6", "4", "-", "l", "i", "n", "u", "x", "-", "a", "m", "d", "6", "4", ".", "p", "l", "u", "g", "i", "n">>, <<"h", "t", "t", "p", "s", ":", "/", "/", "x", "/", "n", "o", "d", "e", "-", "u", "n", "i", "v", "e", "r", "s", "a", "l", ".", "p", "l", "u", "g", "i", "n">>)
Checksum == Asset(<<"n", "o", "d", "e", "-", "l", "i", "n", "u", "x", "-", "a", "r", "m", "6", "4", ".", "p", "l", "u", "g", "i", "n", ".", "s", "h", "a", "2", "5", "6">>, <<"h", "t", "t", "p", "s", ":", "/", "/", "x", "/", "n", "o", "d", "e", "-", "l", "i", "n", "u", "x", "-", "a", "r", "m", "6", "4", ".", "p", "l", "u", "g", "i", "n", ".", "s", "h", "a", "2", "5", "6">>)
NoPlatform == Asset(<<"n", "o", "d", "e", "-", "w", "i", "n", "d", "o", "w", "s", ".", "p", "l", "u", "g", "i", "n">>, <<"h", "t", "t", "p", "s", ":", "/", "/", "x", "/", "n", "o", "d", "e", "-", "w", "i", "n", "d", "o", "w", "s", ".", "p", "l", "u", "g", "i", "n">>)
Text == Asset(<<"b", "a", "r", ".", "t", "x", "t">>, <<"h", "t", "t", "p", "s", ":", "/", "/", "x", "/", "b", "a", "r", ".", "t", "x", "t">>)

BaseAssets == <<LinuxAmd>>
AssetLists ==
    { <<>>, <<LinuxAmd>>, <<Text>>, <<NoPlatform, Checksum>>, <<TwoKeys>>,
      <<LinuxAmdOld, Text, LinuxAmd>>, <<DarwinArm, LinuxAmd>>,
      <<LinuxAmd, TwoKeys>> }

\* body and publishedAt: the key may be missing, or hold null or a string.
Bodies ==
    { EmptyDict, [body |-> None], [body |-> Str(<<>>)],
      [body |-> Str(<<"N", "o", "d", "e", " ", "r", "u", "n", "t", "i", "m", "e", "\n", "S", "e", "c", "o", "n", "d", " ", "l", "i", "n", "e">>)] }
PublishedAts ==
    { EmptyDict, [publishedAt |-> None],
      [publishedAt |-> Str(<<"2", "0", "2", "4", "-", "0", "4", "-", "3", "0", "T", "1", "0", ":", "0", "0", ":", "0", "0", "Z">>)] }
BaseBody == [body |-> Str(<<"N", "o", "d", "e", " ", "r", "u", "n", "t", "i", "m", "e", "\n", "S", "e", "c", "o", "n", "d", " ", "l", "i", "n", "e">>)]
BasePublishedAt == [publishedAt |-> Str(<<"2", "0", "2", "4", "-", "0", "4", "-", "3", "0", "T", "1", "0", ":", "0", "0", ":", "0", "0", "Z">>)]

Release(tag, assetsField, bodyField, publishedField) ==
    [tagName |-> tag, name |-> tag] @@ assetsField @@ bodyField @@ publishedField

\* The release records of the model: every tag, every asset list, every body
\* and every publishedAt on an otherwise ordinary release, a release with no
\* assets key, and releases with null fields, a malformed or dashed tag and
\* unrecognized or doubly recognized assets.
Releases ==
    {Release(tag, [assets |-> BaseAssets], BaseBody, BasePublishedAt) : tag \in Tags}
    \cup {Release(BaseTag, [assets |-> a], BaseBody, BasePublishedAt) : a \in AssetLists}
    \cup {Release(BaseTag, [assets |-> BaseAssets], b, BasePublishedAt) : b \in Bodies}
    \cup {Release(BaseTag, [assets |-> BaseAssets], BaseBody, p) : p \in PublishedAts}
    \cup {Release(BaseTag, EmptyDict, BaseBody, BasePublishedAt)}
    \cup {Release(tag, [assets |-> a], [body |-> None], [publishedAt |-> None]) :
            tag \in { <<"p", "l", "u", "g", "i", "n", "-", "f", "o", "o">>, PluginTag(<<"m", "y", "-", "d", "b">>, <<"v", "2">>) },
            a \in { <<Text>>, <<TwoKeys>> }}

RECURSIVE SeqsUpTo(_, _)
SeqsUpTo(S, n) ==
    IF n = 0 THEN {<<>>}
    ELSE LET shorter == SeqsUpTo(S, n - 1)
         IN  shorter \cup {Append(s, x) : s \in shorter, x \in S}

\* What subprocess.run(['gh', 'release', 'list', ...]) gives back: the exit
\* status, the listing (stdout, as json.loads reads it) and stderr.
GhResults ==
    {[returncode |-> 0, stdout |-> rs, stderr |-> <<>>] :
        rs \in SeqsUpTo(Releases, MaxReleases)}
    \cup {[returncode |-> rc, stdout |-> <<>>, stderr |-> msg] :
            rc \in {1, 4}, msg \in { <<"H", "T", "T", "P", " ", "4", "0", "1", ":", " ", "B", "a", "d", " ", "c", "r", "e", "d", "e", "n", "t", "i", "a", "l", "s", "\n">>, <<>> }}

NoGh == [returncode |-> 0, stdout |-> <<>>, stderr |-> <<>>]

---------------------------------------------------------------------------
(* convert-plugin-manifest.py *)

Uncategorized == <<"u", "n", "c", "a", "t", "e", "g", "o", "r", "i", "z", "e", "d">>
DefaultLicense == <<"M", "I", "T">>
DefaultRepository == <<"h", "t", "t", "p", "s", ":", "/", "/", "g", "i", "t", "h", "u", "b", ".", "c", "o", "m", "/", "b", "l", "a", "c", "k", "h", "o", "l", "e", "-", "p", "r", "o", "/", "b", "l", "a", "c", "k", "h", "o", "l", "e">>
ReleaseTagUrl == <<"h", "t", "t", "p", "s", ":", "/", "/", "g", "i", "t", "h", "u", "b", ".", "c", "o", "m", "/", "b", "l", "a", "c", "k", "h", "o", "l", "e", "-", "p", "r", "o", "/", "b", "l", "a", "c", "k", "h", "o", "l", "e", "/", "r", "e", "l", "e", "a", "s", "e", "s", "/", "t", "a", "g", "/", "p", "l", "u", "g", "i", "n", "-">>
NoGetAttribute == <<"'", "N", "o", "n", "e", "T", "y", "p", "e", "'", " ", "o", "b", "j", "e", "c", "t", " ", "h", "a", "s", " ", "n", "o", " ", "a", "t", "t", "r", "i", "b", "u", "t", "e", " ", "'", "g", "e", "t", "'">>

\* {x} in an f-string: str(x).
Format(x) == IF x.t = "NoneType" THEN <<"N", "o", "n", "e">> ELSE x.v

\* spec.get(k) or default: a falsy stored value is replaced as well.
SpecGetOrDefault(spec, k, default) ==
    IF k \in DOMAIN spec /\ Truthy(spec[k]) THEN spec[k] ELSE default

\* spec.get(k, default), as the entry's fields read the spec section.
SpecGet(spec, k, default) == Get(spec, k, default)

\* convert_manifest after yaml.safe_load: the marketplace entry, or the
\* exception raised when the document, its metadata or its spec is null.
convert_manifest(manifest, now) ==
    IF manifest = None THEN Raise(NoGetAttribute)
    ELSE
    LET metadata == Get(manifest, "metadata", EmptyDict)
        spec == Get(manifest, "spec", EmptyDict)
    IN  IF metadata = None \/ spec = None THEN Raise(NoGetAttribute)
        ELSE
        [id |-> Get(metadata, "name", None),
         name |-> SpecGet(spec, "displayName", Get(metadata, "name", None)),
         version |-> SpecGet(spec, "version", None),
         description |-> SpecGet(spec, "description", Str(<<>>)),
         category |-> SpecGet(spec, "category", Str(Uncategorized)),
         author |-> SpecGet(spec, "author", PyDict(<<>>)),
         license |-> SpecGet(spec, "license", Str(DefaultLicense)),
         source |->
            [type |-> <<"r", "e", "l", "e", "a", "s", "e">>,
             url |-> ReleaseTagUrl \o Format(Get(metadata, "name", None))
                        \o <<"-", "v">> \o Format(SpecGet(spec, "version", None))],
         repository |-> SpecGet(spec, "repository", Str(DefaultRepository)),
         documentation |-> SpecGet(spec, "documentation", Str(<<>>)),
         keywords |-> SpecGet(spec, "keywords", PyList(<<>>)),
         requirements |-> SpecGet(spec, "requirements", PyDict(<<>>)),
         capabilities |-> SpecGet(spec, "capabilities", PyList(<<>>)),
         resources |-> SpecGet(spec, "resources", PyDict(<<>>)),
         stats |-> [updated |-> now \o <<"Z">>]]

\* json.dumps(result, indent=2): the JSON document printed.
JsonEntry(e) ==
    [json |-> [k \in DOMAIN e |->
                 IF k \in {"source", "stats"} THEN e[k] ELSE JsonValue(e[k])]]

(* The inputs of a run of the manifest converter *)

ScriptName == <<"c", "o", "n", "v", "e", "r", "t", "-", "p", "l", "u", "g", "i", "n", "-", "m", "a", "n", "i", "f", "e", "s", "t", ".", "p", "y">>
Usage == <<"U", "s", "a", "g", "e", ":", " ", "c", "o", "n", "v", "e", "r", "t", "-", "p", "l", "u", "g", "i", "n", "-", "m", "a", "n", "i", "f", "e", "s", "t", ".", "p", "y", " ", "<", "p", "l", "u", "g", "i", "n", ".", "y", "a", "m", "l", ">">>
Argvs ==
    { <<ScriptName>>, <<ScriptName, <<"p", "l", "u", "g", "i", "n", ".", "y", "a", "m", "l">>>>,
      <<ScriptName, <<"a", ".", "y", "a", "m", "l">>, <<"b", ".", "y", "a", "m", "l">>>> }

Restrict(f, K) == [k \in K |-> f[k]]

FullSpecs ==
    {[displayName |-> dn, version |-> Str(<<"1", ".", "0", ".", "0">>), category |-> c,
      license |-> l, description |-> Str(<<"R", "u", "n", "s", " ", "n", "o", "d", "e">>),
      author |-> PyDict(<<"n", "a", "m", "e", ":", " ", "x">>),
      repository |-> Str(<<"h", "t", "t", "p", "s", ":", "/", "/", "e", "x", "a", "m", "p", "l", "e", ".", "c", "o", "m", "/", "r">>),
      documentation |-> Str(<<"h", "t", "t", "p", "s", ":", "/", "/", "e", "x", "a", "m", "p", "l", "e", ".", "c", "o", "m", "/", "d">>),
      keywords |-> PyList(<<"-", " ", "n", "o", "d", "e">>), requirements |-> PyDict(<<"o", "s", ":", " ", "l", "i", "n", "u", "x">>),
      capabilities |-> PyList(<<"-", " ", "e", "x", "e", "c">>), resources |-> PyDict(<<"c", "p", "u", ":", " ", "1">>)] :
        dn \in {Str(<<"N", "o", "d", "e", " ", "R", "u", "n", "t", "i", "m", "e">>), None},
        c \in {Str(<<"s", "t", "o", "r", "a", "g", "e">>), Str(<<>>)},
        l \in {Str(<<"A", "p", "a", "c", "h", "e", "-", "2", ".", "0">>), None}}

DefaultedKeys == {"displayName", "version", "category", "license"}
OtherKeys ==
    {"description", "author", "repository", "documentation", "keywords",
     "requirements", "capabilities", "resources"}

SpecDicts ==
    {Restrict(f, K \cup O) :
        f \in FullSpecs, K \in SUBSET DefaultedKeys, O \in {{}, OtherKeys}}

\* The documents yaml.safe_load may return: an empty file gives None, and a
\* metadata or spec key may be missing or hold null.
Manifests ==
    {None} \cup
    {m @@ s :
        m \in {EmptyDict, [metadata |-> EmptyDict], [metadata |-> None],
               [metadata |-> [name |-> Str(<<"n", "o", "d", "e">>)]]},
        s \in {EmptyDict, [spec |-> None]} \cup {[spec |-> d] : d \in SpecDicts}}

\* open + yaml.safe_load: the document, or the exception raised.
YamlLoads ==
    {[ok |-> TRUE, doc |-> m, err |-> <<>>] : m \in Manifests}
    \cup {[ok |-> FALSE, doc |-> None, err |-> e] :
            e \in { <<"[", "E", "r", "r", "n", "o", " ", "2", "]", " ", "N", "o", " ", "s", "u", "c", "h", " ", "f", "i", "l", "e", " ", "o", "r", " ", "d", "i", "r", "e", "c", "t", "o", "r", "y", ":", " ", "'", "p", "l", "u", "g", "i", "n", ".", "y", "a", "m", "l", "'">> }}

NoLoad == [ok |-> FALSE, doc |-> None, err |-> <<>>]

---------------------------------------------------------------------------
(* The runs *)

Init ==
    /\ script \in {"generate-catalog-from-releases", "convert-plugin-manifest"}
    /\ pc = "main"
    /\ IF script = "generate-catalog-from-releases"
       THEN gh \in GhResults /\ argv = <<>> /\ yamlLoad = NoLoad
       ELSE /\ gh = NoGh
            /\ argv \in Argvs
            /\ IF Len(argv) = 2 THEN yamlLoad \in YamlLoads ELSE yamlLoad = NoLoad
    /\ releases = <<>>
    /\ i = 0
    /\ release = None
    /\ plugin = None
    /\ plugins = <<>>
    /\ catalog = None
    /\ exc = None
    /\ entry = None
    /\ stdout = <<>>
    /\ stderr = <<>>
    /\ exitcode = -1

Generating == script = "generate-catalog-from-releases"
Converting == script = "convert-plugin-manifest"

\* generate_catalog, its call of get_plugin_releases: a non-zero exit status
\* raises; otherwise the listing is filtered and the loop starts.
GetPluginReleases ==
    /\ Generating /\ pc = "main"
    /\ IF gh.returncode # 0
       THEN /\ exc' = Raise(<<"F", "a", "i", "l", "e", "d", " ", "t", "o", " ", "g", "e", "t", " ", "r", "e", "l", "e", "a", "s", "e", "s", ":", " ">> \o gh.stderr)
            /\ pc' = "except"
            /\ UNCHANGED <<releases, i, plugins>>
       ELSE /\ releases' = FilterPluginReleases(gh.stdout)
            /\ plugins' = <<>>
            /\ i' = 1
            /\ pc' = "for"
            /\ UNCHANGED exc
    /\ UNCHANGED <<script, gh, release, plugin, catalog, argv, yamlLoad, entry,
                   stdout, stderr, exitcode>>

\* for release in releases: plugin = parse_plugin_release(release)
ParsePluginRelease ==
    /\ Generating /\ pc = "for" /\ i <= Len(releases)
    /\ release' = releases[i]
    /\ LET result == parse_plugin_release(releases[i])
       IN  IF Raised(result)
           THEN exc' = result /\ pc' = "except" /\ UNCHANGED plugin
           ELSE plugin' = result /\ pc' = "if" /\ UNCHANGED exc
    /\ UNCHANGED <<script, gh, releases, i, plugins, catalog, argv, yamlLoad,
                   entry, stdout, stderr, exitcode>>

\* if plugin: plugins.append(plugin); then the next release.
CollectPlugin ==
    /\ Generating /\ pc = "if"
    /\ plugins' = IF plugin # None THEN Append(plugins, plugin) ELSE plugins
    /\ i' = i + 1
    /\ pc' = "for"
    /\ UNCHANGED <<script, gh, releases, release, plugin, catalog, exc, argv,
                   yamlLoad, entry, stdout, stderr, exitcode>>

\* After the loop: the catalog wraps the collected entries.
BuildCatalog ==
    /\ Generating /\ pc = "for" /\ i > Len(releases)
    /\ \E now \in Clock :
          catalog' = [version |-> CatalogVersion,
                      updated |-> now \o <<"Z">>,
                      baseUrl |-> BaseUrl,
                      plugins |-> plugins]
    /\ pc' = "print"
    /\ UNCHANGED <<script, gh, releases, i, release, plugin, plugins, exc, argv,
                   yamlLoad, entry, stdout, stderr, exitcode>>

\* print(json.dumps(catalog, indent=2)); the script ends with status 0.
PrintCatalog ==
    /\ Generating /\ pc = "print"
    /\ stdout' = Append(stdout, JsonCatalog(catalog))
    /\ exitcode' = 0
    /\ pc' = "exit"
    /\ UNCHANGED <<script, gh, releases, i, release, plugin, plugins, catalog,
                   exc, argv, yamlLoad, entry, stderr>>

\* except Exception as e: print(f"Error: {e}"); exit(1).  The print names no
\* file, so the line goes to standard output.
GenerateExcept ==
    /\ Generating /\ pc = "except"
    /\ stdout' = Append(stdout, Line(<<"E", "r", "r", "o", "r", ":", " ">> \o exc.raised))
    /\ exitcode' = 1
    /\ pc' = "exit"
    /\ UNCHANGED <<script, gh, releases, i, release, plugin, plugins, catalog,
                   exc, argv, yamlLoad, entry, stderr>>

\* if len(sys.argv) != 2: the usage line on standard error, status 1.
ConvertMain ==
    /\ Converting /\ pc = "main"
    /\ IF Len(argv) # 2
       THEN /\ stderr' = Append(stderr, Line(Usage))
            /\ exitcode' = 1
            /\ pc' = "exit"
       ELSE /\ pc' = "convert"
            /\ UNCHANGED <<stderr, exitcode>>
    /\ UNCHANGED <<script, gh, releases, i, release, plugin, plugins, catalog,
                   exc, argv, yamlLoad, entry, stdout>>

\* result = convert_manifest(sys.argv[1]): the file is read and parsed, then
\* the entry is built; any exception goes to the handler.
ConvertManifest ==
    /\ Converting /\ pc = "convert"
    /\ IF ~yamlLoad.ok
       THEN exc' = Raise(yamlLoad.err) /\ pc' = "except" /\ UNCHANGED entry
       ELSE \E now \in Clock :
              LET result == convert_manifest(yamlLoad.doc, now)
              IN  IF Raised(result)
                  THEN exc' = result /\ pc' = "except" /\ UNCHANGED entry
                  ELSE entry' = result /\ pc' = "print" /\ UNCHANGED exc
    /\ UNCHANGED <<script, gh, releases, i, release, plugin, plugins, catalog,
                   argv, yamlLoad, stdout, stderr, exitcode>>

\* print(json.dumps(result, indent=2)); the script ends with status 0.
PrintEntry ==
    /\ Converting /\ pc = "print"
    /\ stdout' = Append(stdout, JsonEntry(entry))
    /\ exitcode' = 0
    /\ pc' = "exit"
    /\ UNCHANGED <<script, gh, releases, i, release, plugin, plugins, catalog,
                   exc, argv, yamlLoad, entry, stderr>>

\* except Exception as e: print(f"Error: {e}", file=sys.stderr); sys.exit(1)
ConvertExcept ==
    /\ Converting /\ pc = "except"
    /\ stderr' = Append(stderr, Line(<<"E", "r", "r", "o", "r", ":", " ">> \o exc.raised))
    /\ exitcode' = 1
    /\ pc' = "exit"
    /\ UNCHANGED <<script, gh, releases, i, release, plugin, plugins, catalog,
                   exc, argv, yamlLoad, entry, stdout>>

Next ==
    \/ GetPluginReleases
    \/ ParsePluginRelease
    \/ CollectPlugin
    \/ BuildCatalog
    \/ PrintCatalog
    \/ GenerateExcept
    \/ ConvertMain
    \/ ConvertManifest
    \/ PrintEntry
    \/ ConvertExcept

Spec == Init /\ [][Next]_vars

---------------------------------------------------------------------------
(* Properties *)

\* The release has an asset whose name ends with '.plugin' and contains one
\* of the four platform keys.
HasRecognizedAsset(rel) ==
    LET assets == IF "assets" \in DOMAIN rel THEN rel.assets ELSE <<>>
    IN  \E k \in 1..Len(assets) :
            /\ EndsWith(assets[k].name, PluginSuffix)
            /\ \E p \in PlatformKeys : Contains(assets[k].name, p)

\* The k-th member (in increasing order) of a set Q of indexes is the one
\* with rank k.
Rank(Q, k) == Cardinality({j \in Q : j <= k})

\* ps holds exactly parse_plugin_release of the releases at the indexes Q of
\* all, in increasing order of index.
IsParseOfIndexes(ps, all, Q) ==
    /\ Len(ps) = Cardinality(Q)
    /\ \A k \in Q : ps[Rank(Q, k)] = parse_plugin_release(all[k])

\* C1: the catalog's plugins are exactly the entries of the releases of the
\* listing that qualify (tag starts with 'plugin-' and parse_plugin_release
\* returns an entry), one per release, in the listing's relative order.
C1_PluginsAreQualifyingInOrder ==
    (Generating /\ catalog # None) =>
        LET all == gh.stdout
            Q == {k \in 1..Len(all) :
                    /\ StartsWith(all[k].tagName, PluginPrefix)
                    /\ parse_plugin_release(all[k]) # None}
        IN  IsParseOfIndexes(catalog.plugins, all, Q)

\* C1 witness: a listing of two releases gave two different entries.
C1_Witness ==
    /\ Generating /\ catalog # None
    /\ Len(gh.stdout) = 2 /\ Len(catalog.plugins) = 2
    /\ catalog.plugins[1] # catalog.plugins[2]

\* C2: every release tagged plugin-<id>-v<version> that has a recognized
\* asset has an entry in the catalog with exactly that id and that version,
\* for ids that contain '-' and versions that begin with 'v' too.
C2_IdAndVersionFromTag ==
    (Generating /\ catalog # None) =>
        \A k \in 1..Len(gh.stdout), id \in Ids, ver \in Versions :
            (/\ gh.stdout[k].tagName = PluginTag(id, ver)
             /\ HasRecognizedAsset(gh.stdout[k]))
            => \E n \in 1..Len(catalog.plugins) :
                    /\ catalog.plugins[n].id = id
                    /\ catalog.plugins[n].version = ver

\* The places where sub occurs in s.
Occurrences(s, sub) ==
    {k \in 1..(Len(s) - Len(sub) + 1) : SubSeq(s, k, k + Len(sub) - 1) = sub}

\* c is u with '.sha256' put in after every occurrence of '.plugin': each
\* character of u is found in c, moved right by the text put in before it,
\* and each occurrence is followed in c by '.sha256'.
IsEveryOccurrenceReplaced(u, c) ==
    LET occ == Occurrences(u, PluginSuffix)
        old == Len(PluginSuffix)
        added == SubSeq(ChecksumSuffix, old + 1, Len(ChecksumSuffix))
        n == Len(added)
    IN  /\ Len(c) = Len(u) + n * Cardinality(occ)
        /\ \A j \in 1..Len(u) :
              c[j + n * Cardinality({k \in occ : k + old - 1 < j})] = u[j]
        /\ \A k \in occ :
              LET at == k + old + n * Cardinality({q \in occ : q < k})
              IN  SubSeq(c, at, at + n - 1) = added

C4_ErrorOnStderrExitOne ==
    (Generating /\ pc = "exit") =>
        IF gh.returncode # 0
        THEN /\ stdout = <<>>
             /\ Len(stderr) = 1
             /\ StartsWith(stderr[1].text, <<"E", "r", "r", "o", "r", ":", " ">>)
             /\ Contains(stderr[1].text, gh.stderr)
             /\ exitcode = 1
        ELSE /\ exitcode = 0
             /\ stdout = <<JsonCatalog(catalog)>>
             /\ stderr = <<>>

\* The release passes every per-record rule: the 'plugin-' prefix, at least
\* three dash-delimited parts, and a recognized asset.
WellFormed(rel) ==
    /\ StartsWith(rel.tagName, PluginPrefix)
    /\ Len(Split(rel.tagName, "-")) >= 3
    /\ HasRecognizedAsset(rel)

\* C5: when the listing succeeds, no exception is raised at any step, the run
\* ends with status 0 and the catalog printed, and the catalog holds the
\* entries of the well-formed releases alone: a release with a malformed tag
\* or without recognized assets is left out and changes nothing else.
C5_AnomaliesAreSilentExclusions ==
    (Generating /\ gh.returncode = 0) =>
        /\ pc # "except" /\ exc = None
        /\ pc = "exit" => (exitcode = 0 /\ stdout = <<JsonCatalog(catalog)>>)
        /\ catalog # None =>
              IsParseOfIndexes(catalog.plugins, gh.stdout,
                    {k \in 1..Len(gh.stdout) : WellFormed(gh.stdout[k])})

\* C5 witness: a run ended with status 0 on a listing that holds a release
\* with a two-part tag and null body and publishedAt, a release without
\* recognized assets, or both, next to one that gave an entry.
C5_Witness ==
    /\ Generating /\ pc = "exit" /\ exitcode = 0
    /\ Len(gh.stdout) = 2 /\ Len(catalog.plugins) = 1
    /\ \E k \in 1..2 :
          /\ Len(Split(gh.stdout[k].tagName, "-")) < 3
          /\ gh.stdout[k].body = None

\* C6: a release without recognized assets gives no entry, whatever else it
\* holds, and every entry of the run has a non-empty downloads mapping whose
\* keys are platform keys.
C6_NoRecognizedAssetNoEntry ==
    /\ (pc = "if" /\ ~HasRecognizedAsset(release)) => plugin = None
    /\ (pc = "if" /\ plugin # None) =>
          /\ DOMAIN plugin.downloads # {}
          /\ DOMAIN plugin.downloads \subseteq PlatformKeys
    /\ \A n \in 1..Len(plugins) :
          /\ DOMAIN plugins[n].downloads # {}
          /\ DOMAIN plugins[n].downloads \subseteq PlatformKeys
    /\ catalog # None =>
          \A n \in 1..Len(catalog.plugins) :
              /\ DOMAIN catalog.plugins[n].downloads # {}
              /\ DOMAIN catalog.plugins[n].downloads \subseteq PlatformKeys

\* C6 witness: a release with a well-shaped tag and two assets, none of them
\* recognized, was parsed and gave no entry.
C6_Witness ==
    /\ pc = "if" /\ plugin = None
    /\ Len(Split(release.tagName, "-")) >= 3
    /\ "assets" \in DOMAIN release /\ Len(release.assets) = 2
    /\ ~HasRecognizedAsset(release)

\* The spec and metadata sections of the loaded document, {} when missing.
SpecOf(doc) == IF "spec" \in DOMAIN doc THEN doc.spec ELSE EmptyDict
MetadataOf(doc) == IF "metadata" \in DOMAIN doc THEN doc.metadata ELSE EmptyDict

\* C7: in the entry convert_manifest builds, a spec field that is present is
\* copied unchanged; without displayName the name is metadata.name, without
\* category the category is 'uncategorized', without license it is 'MIT'.
C7_DefaultsForMissingFields ==
    (Converting /\ entry # None) =>
        LET spec == SpecOf(yamlLoad.doc)
            metadata == MetadataOf(yamlLoad.doc)
        IN  /\ \A k \in DOMAIN spec \ {"displayName"} : entry[k] = spec[k]
            /\ "displayName" \in DOMAIN spec => entry.name = spec.displayName
            /\ ("displayName" \notin DOMAIN spec /\ "name" \in DOMAIN metadata)
                    => entry.name = metadata.name
            /\ "category" \notin DOMAIN spec => entry.category = Str(Uncategorized)
            /\ "license" \notin DOMAIN spec => entry.license = Str(DefaultLicense)

\* C7 witness: an entry was built from a manifest whose spec holds a version
\* and no displayName, category or license, and whose metadata has a name.
C7_Witness ==
    /\ Converting /\ entry # None
    /\ "name" \in DOMAIN MetadataOf(yamlLoad.doc)
    /\ DOMAIN SpecOf(yamlLoad.doc) = {"version"}
    /\ entry.name = MetadataOf(yamlLoad.doc).name

\* s with its first character removed when that character is in chars.
RemovePrefix(s, chars) ==
    IF s # <<>> /\ s[1] \in chars THEN Tail(s) ELSE s

\* C8: the entry's version is parts[2] of the tag with one leading 'v'
\* removed: only the first character, and only if it is 'v'.
C8_SingleLeadingVStripped ==
    (pc = "if" /\ plugin # None) =>
        plugin.version = RemovePrefix(Split(release.tagName, "-")[3], {"v"})

\* The first platform key, in the scan's order, that occurs in the name.
IsFirstPlatformIn(p, name) ==
    \E k \in 1..Len(Platforms) :
        /\ Platforms[k] = p
        /\ Contains(name, p)
        /\ \A j \in 1..(k - 1) : ~Contains(name, Platforms[j])

\* C9: an asset is recorded under one platform key at most, the first key in
\* the scan's order that its name contains: every DownloadEntry of an entry
\* comes from an asset whose first matching key is the entry's key.
C9_OnePlatformPerAsset ==
    (pc = "if" /\ plugin # None) =>
        \A p \in DOMAIN plugin.downloads :
            \E k \in 1..Len(release.assets) :
                /\ EndsWith(release.assets[k].name, PluginSuffix)
                /\ release.assets[k].url = plugin.downloads[p].url
                /\ IsFirstPlatformIn(p, release.assets[k].name)

\* C10: an entry's metadata.publishedAt is a string: the release's
\* publishedAt when that is a string, the empty string when the key is
\* missing or its value is null.
C10_PublishedAtIsString ==
    (pc = "if" /\ plugin # None) =>
        /\ plugin.metadata.publishedAt.t = "str"
        /\ plugin.metadata.publishedAt =
              IF "publishedAt" \in DOMAIN release /\ release.publishedAt.t = "str"
              THEN release.publishedAt
              ELSE Str(<<>>)

====
